---- MODULE Spec2Model ----
(***************************************************************************)
(* Model of the paste store of main.py: the pastes table of pastes.db, the *)
(* startup hook that creates it, and the two request handlers create_paste *)
(* and get_paste, each running on its own sqlite3 connection.  Handlers    *)
(* are split at their database calls, so that requests interleave the way  *)
(* the threads of the server do.                                           *)
(***************************************************************************)
EXTENDS Integers, Sequences, FiniteSets, TLC

\* ---------------------------------------------------------------- bounds
NumProcs == 2          \* requests the server handles at the same time
NumIds   == 2          \* distinct values secrets.token_urlsafe(8) can yield
MaxLen   == 1          \* longest content a caller submits

\* the request slots; a new request takes the first free one
Procs == 1..NumProcs

\* the characters a content string is made of
Alphabet == {"a"}

RECURSIVE StringsUpTo(_)
StringsUpTo(n) ==
    IF n = 0 THEN {<< >>}
    ELSE LET shorter == StringsUpTo(n - 1)
         IN  shorter \cup {Append(s, ch) : s \in {t \in shorter : Len(t) = n - 1},
                                             ch \in Alphabet}

\* Paste.content: any str, the empty one included
Contents == StringsUpTo(MaxLen)

\* the values secrets.token_urlsafe(8) draws from
token_urlsafe == 1..NumIds

\* the path segments a caller can ask for: every token, and one string that
\* the generator never yields
PathSegments == 1..(NumIds + 1)

NoId == 0

\* ------------------------------------------------------------ SQL helpers

\* The rows of the pastes table, grouped by paste_id: rows[k] is the content
\* column of the rows whose paste_id is k, in rowid order.  Nothing but the
\* PRIMARY KEY check of INSERT keeps rows[k] from holding two rows.

\* a row, as the pair create_paste binds to its INSERT
Row(k, c) == [paste_id |-> k, content |-> c]

\* CREATE TABLE pastes: a table with no rows
EmptyTable == [k \in token_urlsafe |-> << >>]

\* the paste_ids that have a row
IdsOf(rows) == {k \in DOMAIN rows : Len(rows[k]) > 0}

\* the rows as a set of pairs
RowsOf(rows) ==
    UNION {{Row(k, rows[k][i]) : i \in 1..Len(rows[k])} : k \in DOMAIN rows}

\* SELECT content FROM pastes WHERE paste_id = ? ; fetchone():
\* the first matching row as a 1-tuple, or None (modelled as the empty tuple)
SELECT_any(rows, x) ==
    IF IdsOf(rows) = {} THEN << >>
    ELSE LET k == CHOOSE i \in IdsOf(rows) : \A j \in IdsOf(rows) : i <= j
         IN  << rows[k][1] >>

SELECT_content(rows, x) ==
    IF x \in DOMAIN rows /\ Len(rows[x]) > 0 THEN << rows[x][1] >> ELSE << >>

\* INSERT INTO pastes (paste_id, content) VALUES (?, ?) under the PRIMARY KEY
\* constraint on paste_id: a sqlite3.IntegrityError when the key exists,
\* otherwise the table of the transaction with the row added
INSERT_no_key(rows, k, c) ==
    [error |-> FALSE, rows |-> [rows EXCEPT ![k] = Append(@, c)]]

INSERT_OR_REPLACE(rows, k, c) ==
    [error |-> FALSE, rows |-> [rows EXCEPT ![k] = << c >>]]

INSERT(rows, k, c) ==
    IF Len(rows[k]) > 0
    THEN [error |-> TRUE,  rows |-> rows]
    ELSE [error |-> FALSE, rows |-> [rows EXCEPT ![k] = Append(@, c)]]

\* CREATE TABLE IF NOT EXISTS pastes (...): the rows of the table afterwards
CREATE_TABLE(exists, rows) == EmptyTable

CREATE_TABLE_IF_NOT_EXISTS(exists, rows) ==
    IF exists THEN rows ELSE EmptyTable

\* conn.close() with a transaction still open rolls it back: the table the
\* database holds after the close
close_commits(rows, txn_active, txn_rows) ==
    IF txn_active THEN txn_rows ELSE rows

conn_close(rows, txn_active, txn_rows) == rows

\* `if result:` on what fetchone() returned: a row tuple is truthy whatever
\* its content, None is falsy
truthy_content(result) == Len(result) > 0 /\ Len(result[1]) > 0

truthy(result) == Len(result) > 0

\* sqlite3.connect(DB_NAME) in get_db_conn: a connection object of its own for
\* the request, named here by the request that opened it
get_db_conn_shared(p) == 0

get_db_conn(p) == p

\* the database file is write-locked by one connection at a time: a second
\* writer gets SQLITE_BUSY ("database is locked") instead of the lock
NoLock == 0

sqlite_busy_never(holder, p) == FALSE

sqlite_busy(holder, p) == holder # NoLock /\ holder # p

\* ------------------------------------------------------------------ state
NoConn == -1

VARIABLES
    started,      \* the server process runs and on_startup has finished
    fresh,        \* the server has started and has taken no request since
    tableExists,  \* pastes.db holds the pastes table
    table,        \* its committed rows
    lock,         \* the request whose connection holds the write lock
    open,         \* the connections that are open
    pc,           \* where each request stands in its handler
    req,          \* the locals of each request, its log line and its response
    returned      \* the rows that create_paste answered with a paste_id for

vars == << started, fresh, tableExists, table, lock, open, pc, req, returned >>

\* req[p].error is the sqlite3.Error the handler caught and printed:
\* "IntegrityError", or another one named by the call that raised it
\* ("execute failed", "commit failed"); "none" when nothing was raised.
\* req[p].attempts counts the INSERTs the handler has run.

\* a request slot with no request in it
Blank ==
    [op |-> "none", content |-> << >>, paste_id |-> NoId, conn |-> NoConn,
     txn_active |-> FALSE, txn_rows |-> EmptyTable,
     error |-> "none", attempts |-> 0,
     status |-> 0, body_id |-> NoId, body_text |-> << >>]

\* the handler returns or raises: its locals content and paste_id are gone,
\* what is left of the request is the response, the printed error and the
\* connection that get_db_conn still holds
Respond(r, status, error, body_id, body_text) ==
    [r EXCEPT !.content = << >>, !.paste_id = NoId,
              !.status = status, !.error = error,
              !.body_id = body_id, !.body_text = body_text]

Init ==
    /\ started = FALSE
    /\ fresh = FALSE
    /\ tableExists = FALSE
    /\ table = EmptyTable
    /\ lock = NoLock
    /\ open = {}
    /\ pc = [p \in Procs |-> "idle"]
    /\ req = [p \in Procs |-> Blank]
    /\ returned = {}

\* ---------------------------------------------------------------- startup

\* on_startup -> init_db: CREATE TABLE IF NOT EXISTS, commit
on_startup ==
    /\ ~started
    /\ table' = CREATE_TABLE_IF_NOT_EXISTS(tableExists, table)
    /\ tableExists' = TRUE
    /\ started' = TRUE
    /\ fresh' = TRUE
    /\ UNCHANGED << lock, open, pc, req, returned >>

\* the server stops once the requests in flight have been answered
Shutdown ==
    /\ started
    /\ \A p \in Procs : pc[p] = "idle"
    /\ started' = FALSE
    /\ fresh' = FALSE
    /\ UNCHANGED << tableExists, table, lock, open, pc, req, returned >>

\* the slot a new request is handled in
FreeSlot(p) ==
    /\ started
    /\ pc[p] = "idle"
    /\ \A q \in Procs : q < p => pc[q] # "idle"

\* ----------------------------------------------------------- create_paste

\* POST /paste: Depends(get_db_conn) opens the connection, then
\* content = paste.content ; paste_id = secrets.token_urlsafe(8)
CreateBegin(p, c, k) ==
    /\ FreeSlot(p)
    /\ open' = open \cup {get_db_conn(p)}
    /\ req' = [req EXCEPT ![p] = [Blank EXCEPT !.op = "create", !.content = c,
                                               !.paste_id = k,
                                               !.conn = get_db_conn(p)]]
    /\ pc' = [pc EXCEPT ![p] = "insert"]
    /\ fresh' = FALSE
    /\ UNCHANGED << started, tableExists, table, lock, returned >>

\* cursor.execute("INSERT ...") takes the write lock and succeeds, or raises
\* IntegrityError, which `except sqlite3.Error` turns into HTTPException(500)
Insert(p) ==
    /\ pc[p] = "insert"
    /\ ~sqlite_busy(lock, p)
    /\ LET r   == [req[p] EXCEPT !.attempts = @ + 1]
           ins == INSERT(table, r.paste_id, r.content)
       IN  IF ins.error
           THEN /\ req' = [req EXCEPT ![p] =
                             Respond(r, 500, "IntegrityError", NoId, << >>)]
                /\ pc' = [pc EXCEPT ![p] = "close"]
                /\ lock' = lock
           ELSE /\ req' = [req EXCEPT ![p] = [r EXCEPT !.txn_active = TRUE,
                                                       !.txn_rows = ins.rows]]
                /\ pc' = [pc EXCEPT ![p] = "commit"]
                /\ lock' = p
    /\ UNCHANGED << started, fresh, tableExists, table, open, returned >>

\* cursor.execute("INSERT ...") raises another sqlite3.Error (the database is
\* locked by a writer past the timeout, the disk fails): HTTPException(500)
InsertError(p) ==
    /\ pc[p] = "insert"
    /\ req' = [req EXCEPT ![p] =
                 Respond([req[p] EXCEPT !.attempts = @ + 1],
                         500, "execute failed", NoId, << >>)]
    /\ pc' = [pc EXCEPT ![p] = "close"]
    /\ UNCHANGED << started, fresh, tableExists, table, lock, open, returned >>

\* conn.commit() makes the transaction's rows the table and frees the lock;
\* return {"paste_id": paste_id}
Commit(p) ==
    /\ pc[p] = "commit"
    /\ table' = req[p].txn_rows
    /\ lock' = NoLock
    /\ req' = [req EXCEPT ![p] =
                 Respond([req[p] EXCEPT !.txn_active = FALSE,
                                        !.txn_rows = EmptyTable],
                         200, "none", req[p].paste_id, << >>)]
    /\ returned' = returned \cup {Row(req[p].paste_id, req[p].content)}
    /\ pc' = [pc EXCEPT ![p] = "close"]
    /\ UNCHANGED << started, fresh, tableExists, open >>

\* conn.commit() raises sqlite3.Error: the transaction stays open, and the
\* handler raises HTTPException(500)
CommitError(p) ==
    /\ pc[p] = "commit"
    /\ req' = [req EXCEPT ![p] =
                 Respond(req[p], 500, "commit failed", NoId, << >>)]
    /\ pc' = [pc EXCEPT ![p] = "close"]
    /\ UNCHANGED << started, fresh, tableExists, table, lock, open, returned >>

\* -------------------------------------------------------------- get_paste

\* GET /{paste_id}: Depends(get_db_conn) opens the connection
GetBegin(p, x) ==
    /\ FreeSlot(p)
    /\ open' = open \cup {get_db_conn(p)}
    /\ req' = [req EXCEPT ![p] = [Blank EXCEPT !.op = "get", !.paste_id = x,
                                               !.conn = get_db_conn(p)]]
    /\ pc' = [pc EXCEPT ![p] = "select"]
    /\ fresh' = FALSE
    /\ UNCHANGED << started, tableExists, table, lock, returned >>

\* cursor.execute("SELECT ...") ; result = cursor.fetchone()
\* if result: return PlainTextResponse(content=result[0])
\* else: raise HTTPException(status_code=404, ...)
Select(p) ==
    /\ pc[p] = "select"
    /\ LET result == SELECT_content(table, req[p].paste_id)
       IN  IF truthy(result)
           THEN req' = [req EXCEPT ![p] =
                          Respond(req[p], 200, "none", NoId, result[1])]
           ELSE req' = [req EXCEPT ![p] =
                          Respond(req[p], 404, "none", NoId, << >>)]
    /\ pc' = [pc EXCEPT ![p] = "close"]
    /\ UNCHANGED << started, fresh, tableExists, table, lock, open, returned >>

\* the SELECT raises sqlite3.Error: HTTPException(500)
SelectError(p) ==
    /\ pc[p] = "select"
    /\ req' = [req EXCEPT ![p] =
                 Respond(req[p], 500, "execute failed", NoId, << >>)]
    /\ pc' = [pc EXCEPT ![p] = "close"]
    /\ UNCHANGED << started, fresh, tableExists, table, lock, open, returned >>

\* ------------------------------------------------------- end of a request

\* get_db_conn's finally: conn.close(); an open transaction is rolled back
\* and its lock freed.  The request is over and its slot is free again.
Close(p) ==
    /\ pc[p] = "close"
    /\ open' = open \ {req[p].conn}
    /\ table' = conn_close(table, req[p].txn_active, req[p].txn_rows)
    /\ lock' = IF lock = p THEN NoLock ELSE lock
    /\ req' = [req EXCEPT ![p] = Blank]
    /\ pc' = [pc EXCEPT ![p] = "idle"]
    /\ UNCHANGED << started, fresh, tableExists, returned >>

Next ==
    \/ on_startup
    \/ Shutdown
    \/ \E p \in Procs, c \in Contents, k \in token_urlsafe : CreateBegin(p, c, k)
    \/ \E p \in Procs : Insert(p)
    \/ \E p \in Procs : InsertError(p)
    \/ \E p \in Procs : Commit(p)
    \/ \E p \in Procs : CommitError(p)
    \/ \E p \in Procs, x \in PathSegments : GetBegin(p, x)
    \/ \E p \in Procs : Select(p)
    \/ \E p \in Procs : SelectError(p)
    \/ \E p \in Procs : Close(p)

Spec == Init /\ [][Next]_vars

\* ----------------------------------------------------------- properties

\* the handler of p has decided its response and the connection is still open
Answering(p) == pc[p] = "close"

\* p is between the opening of its connection and its close
InFlight(p) == pc[p] # "idle"

Creates == {p \in Procs : req[p].op = "create"}
Gets    == {p \in Procs : req[p].op = "get"}

\* the steps of a handler
InsertStep(p) == pc[p] = "insert" /\ pc'[p] # "insert"
CommitStep(p) == pc[p] = "commit" /\ pc'[p] # "commit"
SelectStep(p) == pc[p] = "select" /\ pc'[p] # "select"
CloseStep(p)  == pc[p] = "close"  /\ pc'[p] # "close"

\* what create_paste has answered for paste_id x so far, as a tuple
Answered(x) ==
    LET cs == {r.content : r \in {a \in returned : a.paste_id = x}}
    IN  IF cs = {} THEN << >> ELSE << CHOOSE c \in cs : TRUE >>

\* C1: a get_paste whose SELECT runs after create_paste answered id k for
\* content c never answers 404 and never answers other content, and answers
\* 200 with exactly c whenever the SELECT raised no database error; the empty
\* content included.
C1_RoundTrip ==
    [][ \A p \in Gets :
          (SelectStep(p) /\ Answered(req[p].paste_id) # << >>) =>
              /\ req'[p].status # 404
              /\ (req'[p].status = 200 =>
                      req'[p].body_text = Answered(req[p].paste_id)[1])
              /\ (req'[p].error = "none" => req'[p].status = 200) ]_vars

\* the empty paste has been created and read back
C1_Witness ==
    \E p \in Gets :
        /\ Answering(p)
        /\ req[p].status = 200
        /\ req[p].body_text = << >>
        /\ \E r \in returned : r.content = << >>

\* C2: a create_paste that answers a paste_id never answers one that an earlier
\* create_paste answered, whatever the contents and whatever the generator
\* draws, and the table holds at most one row per paste_id.
C2_Uniqueness ==
    [][ /\ \A p \in Creates :
              (CommitStep(p) /\ req'[p].status = 200)
                  => req'[p].body_id \notin {r.paste_id : r \in returned}
        /\ \A k \in DOMAIN table' : Len(table'[k]) <= 1 ]_vars

\* two pastes with the same content got different ids, and a create whose
\* generator repeated an id is being answered
C2_Witness ==
    /\ \E r1, r2 \in returned :
          r1.paste_id # r2.paste_id /\ r1.content = r2.content
    /\ \E p \in Creates :
          Answering(p) /\ req[p].error = "IntegrityError"

\* C3: no step removes or changes a row of the table, and after every step each
\* paste_id that create_paste answered still selects the content it was
\* created with.
C3_Immutability ==
    [][ /\ \A k \in DOMAIN table :
              /\ Len(table'[k]) >= Len(table[k])
              /\ \A i \in 1..Len(table[k]) : table'[k][i] = table[k][i]
        /\ \A r \in returned :
              SELECT_content(table', r.paste_id) = << r.content >> ]_vars

\* a create collided with a stored paste while a get read a stored paste
C3_Witness ==
    \E p \in Creates, q \in Gets :
        /\ Answering(p)
        /\ req[p].error = "IntegrityError"
        /\ Answering(q)
        /\ req[q].status = 200
        /\ req[q].body_text # << >>

\* C4: a get_paste for a string under which the table holds no row answers 404
\* with no paste content, unless its SELECT raised a database error; it
\* answers 500 exactly when the SELECT raised; and a 200 carries the content
\* of a row stored under the very string asked for.
C4_UnknownLookup ==
    [][ \A p \in Gets :
          SelectStep(p) =>
              /\ (req[p].paste_id \notin IdsOf(table) =>
                      /\ req'[p].status \in {404, 500}
                      /\ req'[p].body_text = << >>
                      /\ (req'[p].error = "none" => req'[p].status = 404))
              /\ (req'[p].status = 500 <=> req'[p].error # "none")
              /\ (req'[p].status = 200 =>
                      Row(req[p].paste_id, req'[p].body_text) \in RowsOf(table)) ]_vars

\* a 404 is being answered while the table holds a paste with content
C4_Witness ==
    \E p \in Gets :
        /\ Answering(p)
        /\ req[p].status = 404
        /\ \E r \in RowsOf(table) : r.content # << >>

\* C5: a create_paste whose INSERT or commit raised answers 500 with no
\* paste_id, and neither that step nor the close of its connection changes
\* the table; a paste_id is answered in the step that commits its row; and
\* the table holds exactly the rows that were answered.
C5_FailureAtomicity ==
    [][ /\ \A p \in Creates :
              /\ ((InsertStep(p) \/ CommitStep(p)) /\ req'[p].error # "none") =>
                    /\ req'[p].status = 500
                    /\ req'[p].body_id = NoId
                    /\ table' = table
                    /\ returned' = returned
              /\ (CloseStep(p) /\ req[p].status = 500) => table' = table
              /\ (req[p].status = 0 /\ req'[p].status = 200) =>
                    /\ req'[p].body_id = req[p].paste_id
                    /\ Row(req[p].paste_id, req[p].content) \in RowsOf(table')
        /\ RowsOf(table') = returned' ]_vars

\* a create whose commit failed is answering 500 and its row is not stored
C5_Witness ==
    \E p \in Creates :
        /\ Answering(p)
        /\ req[p].error = "commit failed"
        /\ req[p].status = 500
        /\ req[p].txn_active
        /\ RowsOf(req[p].txn_rows) # RowsOf(table)

C7_CollisionRecovery ==
    \A p \in Creates :
        (Answering(p) /\ req[p].error = "IntegrityError" /\ req[p].status = 500)
            => req[p].attempts > 1

\* C8: every request in flight has a connection of its own that is open, the
\* open connections are exactly those of the requests in flight (none when
\* no request is in flight), and a request is answered 200, 404 or 500
\* before its connection is closed.
C8_ConnectionScoping ==
    /\ \A p \in Procs : InFlight(p) => req[p].conn \in open
    /\ \A p, q \in Procs :
          (InFlight(p) /\ InFlight(q) /\ p # q) => req[p].conn # req[q].conn
    /\ open = {req[p].conn : p \in {q \in Procs : InFlight(q)}}
    /\ \A p \in Procs : Answering(p) => req[p].status \in {200, 404, 500}

\* a request answered 500 is about to close its connection, next to another
\* request with a connection of its own
C8_Witness ==
    \E p, q \in Procs :
        /\ Answering(p) /\ req[p].status = 500 /\ req[p].error = "execute failed"
        /\ InFlight(q)
        /\ open = {req[p].conn, req[q].conn}
        /\ Cardinality(open) = 2

\* C9: a start of the server leaves the pastes table in existence, empty when
\* it was absent and with its rows unchanged when it was there, so that every
\* paste_id answered before selects its content after the start.
C9_IdempotentInit ==
    [][ (~started /\ started') =>
            /\ tableExists'
            /\ (tableExists => table' = table)
            /\ (~tableExists => table' = EmptyTable)
            /\ \A r \in returned :
                  SELECT_content(table', r.paste_id) = << r.content >> ]_vars

\* the server has just started again on a table that held answered pastes,
\* and holds them all
C9_Witness ==
    /\ started
    /\ fresh
    /\ returned # {}
    /\ \E r \in returned : r.content # << >>
    /\ RowsOf(table) = returned

\* C10: a create_paste runs one INSERT and no second one; when its paste_id is
\* already in the table that INSERT ends the call with 500, the table is left
\* as it was by that step and by the close of the connection, and the
\* paste_id selects the content it had before.
C10_SingleAttempt ==
    [][ \A p \in Creates :
          /\ req'[p].attempts <= 1
          /\ (InsertStep(p) /\ req[p].paste_id \in IdsOf(table)) =>
                /\ req'[p].attempts = 1
                /\ req'[p].status = 500
                /\ pc'[p] = "close"
                /\ ~req'[p].txn_active
                /\ table' = table
          /\ (CloseStep(p) /\ req[p].status = 500) =>
                \A k \in DOMAIN table :
                    SELECT_content(table', k) = SELECT_content(table, k) ]_vars

\* a create that met its paste_id in the table is answered 500 after one INSERT
C10_Witness ==
    \E p \in Creates :
        /\ Answering(p)
        /\ req[p].error = "IntegrityError"
        /\ req[p].status = 500
        /\ req[p].attempts = 1

====
